---- MODULE Spec2Model ----
(***************************************************************************)
(* Session conversation engine of the chatbot API                          *)
(* (chatbotapi/src/chat/infrastructure/api.py), its validation schema and  *)
(* flow script (domain/flow_definition.py) and the hybrid answer router    *)
(* (application/convo/response_generation.py).                             *)
(*                                                                         *)
(* Text.  A Python str is a sequence of one-character strings, so that     *)
(* lower(), upper(), strip(), split(), int() and the substring test are    *)
(* computed character by character.  A literal message of the program that *)
(* is only ever copied or concatenated is a one-element sequence holding   *)
(* the whole literal; concatenation is \o.                                 *)
(*                                                                         *)
(* A local of the code that is read more than once is the parameter of an  *)
(* operator of its own (the code after the assignment), so every           *)
(* expression of the code is written once.                                 *)
(***************************************************************************)
EXTENDS Integers, Sequences, FiniteSets, TLC

\* ------------------------------------------------------------------------
\* Python string primitives
\* ------------------------------------------------------------------------

UpperLetters ==
    <<"A","B","C","D","E","F","G","H","I","J","K","L","M",
      "N","O","P","Q","R","S","T","U","V","W","X","Y","Z">>

LowerLetters ==
    <<"a","b","c","d","e","f","g","h","i","j","k","l","m",
      "n","o","p","q","r","s","t","u","v","w","x","y","z">>

Digits ==
    <<"0","1","2","3","4","5","6","7","8","9">>

Whitespace ==
    {" ", "\t", "\n", "\r"}

\* position of c in table, 0 when absent
IndexIn(c, table) ==
    IF \E i \in 1..Len(table) : table[i] = c
    THEN CHOOSE i \in 1..Len(table) : table[i] = c
    ELSE 0

\* table[i] for i > 0, else c
MapChar(c, i, table) ==
    IF i > 0 THEN table[i] ELSE c

LowerChar(c) ==
    MapChar(c, IndexIn(c, UpperLetters), LowerLetters)

UpperChar(c) ==
    MapChar(c, IndexIn(c, LowerLetters), UpperLetters)

\* str.lower()
Lower(s) ==
    [i \in 1..Len(s) |-> LowerChar(s[i])]

\* str.upper()
Upper(s) ==
    [i \in 1..Len(s) |-> UpperChar(s[i])]

\* s cut down to the span of the positions in keep
Span(s, keep) ==
    IF keep = {} THEN <<>>
    ELSE SubSeq(s, CHOOSE i \in keep : \A j \in keep : i <= j,
                   CHOOSE i \in keep : \A j \in keep : j <= i)

\* str.strip(): drop leading and trailing whitespace
Strip(s) ==
    Span(s, {i \in 1..Len(s) : s[i] \notin Whitespace})

\* pat in s (substring test)
Contains(s, pat) ==
    \E i \in 0..(Len(s) - Len(pat)) : SubSeq(s, i + 1, i + Len(pat)) = pat

\* len(s.split()): the number of maximal runs of non-whitespace characters
SplitCount(s) ==
    Cardinality({i \in 1..Len(s) :
                    /\ s[i] \notin Whitespace
                    /\ (i = 1 \/ s[i - 1] \in Whitespace)})

\* value of a digit string whose '_' separators were already checked
RECURSIVE DigitsValue(_)
DigitsValue(s) ==
    IF s = <<>> THEN 0
    ELSE IF s[Len(s)] = "_" THEN DigitsValue(SubSeq(s, 1, Len(s) - 1))
    ELSE DigitsValue(SubSeq(s, 1, Len(s) - 1)) * 10 + (IndexIn(s[Len(s)], Digits) - 1)

IsSigned(t) ==
    t # <<>> /\ t[1] \in {"+", "-"}

\* decimal digits that may be grouped by single underscores
WellFormedDigits(body) ==
    /\ body # <<>>
    /\ \A i \in 1..Len(body) : IndexIn(body[i], Digits) > 0 \/ body[i] = "_"
    /\ body[1] # "_"
    /\ body[Len(body)] # "_"
    /\ \A i \in 1..(Len(body) - 1) : ~(body[i] = "_" /\ body[i + 1] = "_")

\* int() of the digits body under sign negative
IntOf(negative, body) ==
    IF WellFormedDigits(body)
    THEN [raised |-> FALSE, num |-> IF negative THEN 0 - DigitsValue(body) ELSE DigitsValue(body)]
    ELSE [raised |-> TRUE, num |-> 0]

\* int() of a text without surrounding whitespace
IntOfStripped(t) ==
    IF IsSigned(t) THEN IntOf(t[1] = "-", SubSeq(t, 2, Len(t))) ELSE IntOf(FALSE, t)

\* int(v) for a str v: surrounding whitespace is ignored, one optional sign,
\* then the digits.  [raised |-> TRUE] stands for ValueError.
ParseInt(v) ==
    IntOfStripped(Strip(v))

\* ------------------------------------------------------------------------
\* Validation schema and flow script (domain/flow_definition.py)
\* ------------------------------------------------------------------------

\* what a field validator does: return the value, or raise ValueError(msg)
Returned(v) ==
    [raised |-> FALSE, value |-> v, msg |-> <<>>]

ValueError(m) ==
    [raised |-> TRUE, value |-> <<>>, msg |-> m]

validate_name(v) ==
    IF v = <<>> \/ Len(v) < 3
    THEN ValueError(<<"Name must be at least 3 characters long.">>)
    ELSE Returned(v)

\* a project type rule that is content with one word
validate_project_type_one_word(v) ==
    IF v = <<>> \/ SplitCount(v) < 1
    THEN ValueError(<<"Project type must be described in at least two words.">>)
    ELSE Returned(v)

validate_project_type(v) ==
    IF v = <<>> \/ SplitCount(v) < 2
    THEN ValueError(<<"Project type must be described in at least two words.">>)
    ELSE Returned(v)

\* the try block of validate_duration after num = int(v)
duration_try(p) ==
    IF p.raised THEN ValueError(<<"invalid literal for int()">>)
    ELSE IF p.num <= 0 THEN ValueError(<<"Duration must be a positive number of weeks.">>)
    ELSE Returned(p.num)

\* except ValueError of validate_duration: every ValueError of the try block
\* is replaced
duration_except(t) ==
    IF t.raised THEN ValueError(<<"Duration must be a valid integer.">>) ELSE t

validate_duration(v) ==
    duration_except(duration_try(ParseInt(v)))

\* a budget rule that lets 100 through
budget_try_from_100(p) ==
    IF p.raised THEN ValueError(<<"invalid literal for int()">>)
    ELSE IF p.num < 100 THEN ValueError(<<"Budget must be greater than $100.">>)
    ELSE Returned(p.num)

\* the try block of validate_budget after num = int(v)
budget_try(p) ==
    IF p.raised THEN ValueError(<<"invalid literal for int()">>)
    ELSE IF p.num <= 100 THEN ValueError(<<"Budget must be greater than $100.">>)
    ELSE Returned(p.num)

budget_except(t) ==
    IF t.raised THEN ValueError(<<"Budget must be a valid integer.">>) ELSE t

validate_budget(v) ==
    budget_except(budget_try(ParseInt(v)))

CHAT_FLOW ==
    << [key |-> "name",
        prompt |-> <<"Welcome! To start, what is your **full name**?">>,
        placeholder |-> <<"e.g., Alex Johnson">>,
        model_field |-> "name"],
       [key |-> "projectType",
        prompt |-> <<"What **type of project** are you planning?">>,
        placeholder |-> <<"e.g., Web App, Data Analysis, Chatbot">>,
        model_field |-> "projectType"],
       [key |-> "duration",
        prompt |-> <<"Approximately how many **weeks** will the project take?">>,
        placeholder |-> <<"e.g., 8">>,
        type |-> "number",
        model_field |-> "duration"],
       [key |-> "budget",
        prompt |-> <<"What is the approximate **budget** for this project (in USD)?">>,
        placeholder |-> <<"e.g., 10000">>,
        type |-> "number",
        model_field |-> "budget"] >>

\* len(CHAT_FLOW)
N ==
    Len(CHAT_FLOW)

\* the field validator ProjectData registers for a field
FieldValidator(field, v) ==
    CASE field = "name" -> validate_name(v)
      [] field = "projectType" -> validate_project_type(v)
      [] field = "duration" -> validate_duration(v)
      [] field = "budget" -> validate_budget(v)

\* the ValidationError pydantic builds from a validator's ValueError: the
\* entry for the field carries "Value error, <text of the ValueError>"
ValidationOutcome(current_key, r) ==
    IF r.raised
    THEN [raised |-> TRUE,
          errors |-> << [loc |-> <<current_key>>, msg |-> <<"Value error, ">> \o r.msg] >>]
    ELSE [raised |-> FALSE, errors |-> <<>>]

\* TempValidator(**{current_key: user_input}): only current_key is required
\* and given, the other fields default to None and are not validated.  The
\* mode='before' validator of current_key runs on the raw str; what it
\* returns (the str, or an int) then passes the field's own type check.
TempValidator(current_key, user_input) ==
    ValidationOutcome(current_key, FieldValidator(current_key, user_input))

\* ------------------------------------------------------------------------
\* Python dict and str helpers used by the handler
\* ------------------------------------------------------------------------

\* {}
EmptyDict ==
    [k \in {} |-> <<>>]

\* d[k] = v
DictSet(d, k, v) ==
    [x \in (DOMAIN d) \cup {k} |-> IF x = k THEN v ELSE d[x]]

\* d.get(k, default)
DictGet(d, k, default) ==
    IF k \in DOMAIN d THEN d[k] ELSE default

\* s.replace(old, new) on a text, leftmost occurrences first
RECURSIVE Replace(_, _, _)
Replace(s, old, new) ==
    IF Len(s) < Len(old) \/ old = <<>> THEN s
    ELSE IF SubSeq(s, 1, Len(old)) = old
         THEN new \o Replace(SubSeq(s, Len(old) + 1, Len(s)), old, new)
         ELSE <<s[1]>> \o Replace(SubSeq(s, 2, Len(s)), old, new)

\* sep.join(parts)
RECURSIVE Join(_, _)
Join(sep, parts) ==
    IF parts = <<>> THEN <<>>
    ELSE IF Len(parts) = 1 THEN parts[1]
    ELSE parts[1] \o sep \o Join(sep, Tail(parts))

\* ------------------------------------------------------------------------
\* Hybrid router (application/convo/response_generation.py)
\*
\* The classifier, the retriever and the generator are outside the program:
\* env holds what each of them does when it is invoked in this turn, either
\* [raised |-> TRUE, value |-> text of the exception] or
\* [raised |-> FALSE, value |-> what it returns].
\* ------------------------------------------------------------------------

\* one invocation of an external capability, as recorded in calls: the
\* capability, the prompt template, the query and context passed, and
\* whether the invocation raised
Call(cap, prompt, query, context, raised) ==
    [cap |-> cap, prompt |-> prompt, query |-> query, context |-> context,
     raised |-> raised]

\* what a chain yields: the LLM message's content, or the exception raised;
\* calls lists the capability invocations made, in order
ChainResult(raised, value, calls) ==
    [raised |-> raised, value |-> value, calls |-> calls]

\* "\n\n---\n\n".join([doc.page_content for doc in docs])
FormatDocs(docs) ==
    Join(<<"\n\n---\n\n">>, [i \in 1..Len(docs) |-> docs[i].page_content])

\* a rag_chain that retrieves and then generates without the passages
rag_chain_without_context(query, env) ==
    IF env.ret.raised
    THEN ChainResult(TRUE, env.ret.value, <<Call("retriever", "none", query, <<>>, TRUE)>>)
    ELSE ChainResult(env.gen.raised, env.gen.value,
                     <<Call("retriever", "none", query, <<>>, FALSE),
                       Call("generator", "rag_prompt", query, <<>>, env.gen.raised)>>)

\* rag_chain: retrieve with the raw query, join the passages, generate from
\* rag_prompt with the context
rag_chain(query, env) ==
    IF env.ret.raised
    THEN ChainResult(TRUE, env.ret.value, <<Call("retriever", "none", query, <<>>, TRUE)>>)
    ELSE ChainResult(env.gen.raised, env.gen.value,
                     <<Call("retriever", "none", query, <<>>, FALSE),
                       Call("generator", "rag_prompt", query, FormatDocs(env.ret.value),
                            env.gen.raised)>>)

\* direct_llm_chain: generate from llm_prompt and the query alone
direct_llm_chain(query, env) ==
    ChainResult(env.gen.raised, env.gen.value,
                <<Call("generator", "llm_prompt", query, <<>>, env.gen.raised)>>)

\* a condition that compares without folding case
IsRagExactly(classification) ==
    classification = <<"R","A","G">>

\* the condition of the RunnableBranch
IsRagClassification(classification) ==
    Upper(classification) = <<"R","A","G">>

\* RunnableBranch((condition, rag_chain), direct_llm_chain)
RunnableBranch(query, classification, env) ==
    IF IsRagClassification(classification)
    THEN rag_chain(query, env)
    ELSE direct_llm_chain(query, env)

\* the classifier's invocation followed by what the branch did
AfterClassifier(query, branch) ==
    ChainResult(branch.raised, branch.value,
                <<Call("classifier", "classifier_prompt", query, <<>>, FALSE)>> \o branch.calls)

\* the chain _build_hybrid_chain returns, invoked on {"query": query}:
\* classification = content.strip() of the classifier's answer, then the branch
build_hybrid_chain(query, env) ==
    IF env.cls.raised
    THEN ChainResult(TRUE, env.cls.value,
                     <<Call("classifier", "classifier_prompt", query, <<>>, TRUE)>>)
    ELSE AfterClassifier(query, RunnableBranch(query, Strip(env.cls.value), env))

\* the dict __call__ returns for the chain's result
CallResult(query, result) ==
    IF result.raised THEN result
    ELSE ChainResult(FALSE,
                     [query |-> query,
                      response |-> result.value,
                      classification |-> result.value],
                     result.calls)

\* HybridGenerator.__call__
HybridGenerator_call(query, env) ==
    CallResult(query, build_hybrid_chain(query, env))

\* ------------------------------------------------------------------------
\* Session engine (infrastructure/api.py)
\* ------------------------------------------------------------------------

FlowResponse(status, bot_message, is_complete, data, mode) ==
    [status |-> status, bot_message |-> bot_message, is_complete |-> is_complete,
     data |-> data, mode |-> mode]

INITIAL_PROMPT ==
    <<"Hello! I am a modular chatbot. Would you like to use the **Flow-based Project Planner** or the **Jordan Peterson RAG Chatbot**? (Respond with 'Flow' or 'RAG').">>

INVALID_MODE_MESSAGE ==
    <<"I couldn't understand that. Please respond with 'Flow' to start the Project Planner or 'RAG' to start the Jordan Peterson Chatbot.">>

\* the state get_session stores for an unseen id
NewSession ==
    [mode |-> "initial", step_index |-> 0, answers |-> EmptyDict,
     history |-> <<>>, is_complete |-> FALSE]

\* a get_session that starts the store afresh for an unseen id
get_session_fresh_store(sessions, session_id) ==
    IF session_id \notin DOMAIN sessions
    THEN [x \in {session_id} |-> NewSession]
    ELSE sessions

get_session(sessions, session_id) ==
    IF session_id \notin DOMAIN sessions
    THEN [x \in (DOMAIN sessions) \cup {session_id} |->
             IF x = session_id THEN NewSession ELSE sessions[x]]
    ELSE sessions

UserEntry(content) ==
    [role |-> "user", content |-> content]

AssistantEntry(content) ==
    [role |-> "assistant", content |-> content]

PromptEntry(content, key) ==
    [role |-> "assistant", content |-> content, key |-> key]

\* an append that puts the newest entry first
AppendHistoryNewestFirst(flow_state, entry) ==
    [flow_state EXCEPT !.history = <<entry>> \o @]

\* flow_state['history'].append(entry)
AppendHistory(flow_state, entry) ==
    [flow_state EXCEPT !.history = Append(@, entry)]

\* what one turn yields: the session's state after it, the response returned
\* and the capability invocations made
Turn(state, response, calls) ==
    [state |-> state, response |-> response, calls |-> calls]

\* except Exception as e, in the RAG branch: the response for the failure
RagFailure(e) ==
    FlowResponse("error",
                 <<"An error occurred while processing the RAG query: ">> \o e,
                 FALSE, EmptyDict, "rag")

\* a RAG branch whose try block does not cover the generator call: the
\* exception leaves the handler and the framework answers for it
RagAnswerUncaught(asked, result) ==
    IF result.raised
    THEN Turn(asked,
              FlowResponse("unhandled", <<"Internal Server Error">>, FALSE, EmptyDict, "none"),
              result.calls)
    ELSE Turn(AppendHistory(asked, AssistantEntry(result.value.response)),
              FlowResponse("success", result.value.response, FALSE, EmptyDict, "rag"),
              result.calls)

\* a try block that answers with the generated text without recording it
RagAnswerUnrecorded(asked, result) ==
    IF result.raised
    THEN Turn(asked, RagFailure(result.value), result.calls)
    ELSE Turn(asked,
              FlowResponse("success", result.value.response, FALSE, EmptyDict, "rag"),
              result.calls)

\* the try block of the RAG branch after the user entry was appended and the
\* generator was called: the assistant entry and the success response, or,
\* when the call raised, the except branch
RagAnswer(asked, result) ==
    IF result.raised
    THEN Turn(asked, RagFailure(result.value), result.calls)
    ELSE Turn(AppendHistory(asked, AssistantEntry(result.value.response)),
              FlowResponse("success", result.value.response, FALSE, EmptyDict, "rag"),
              result.calls)

\* the try block of the RAG branch
RagQuery(flow_state, user_input, env) ==
    RagAnswer(AppendHistory(flow_state, UserEntry(user_input)),
              HybridGenerator_call(user_input, env))

\* RAG logic that never reaches the generator
RagModeIdle(flow_state, user_input, env) ==
    Turn(flow_state,
         FlowResponse("success", <<"RAG Chatbot is active. Ask your question.">>,
                      FALSE, EmptyDict, "rag"),
         <<>>)

\* 1. RAG Mode Logic
RagMode(flow_state, user_input, env) ==
    IF user_input = <<>>
    THEN Turn(flow_state,
              FlowResponse("success", <<"RAG Chatbot is active. Ask your question.">>,
                           FALSE, EmptyDict, "rag"),
              <<>>)
    ELSE RagQuery(flow_state, user_input, env)

\* next((err['msg'] for err in errors if err['loc'][0] == current_key),
\*      "Invalid input."), own being the positions of the matching entries
FirstMsg(errors, own) ==
    IF own = {} THEN <<"Invalid input.">>
    ELSE errors[CHOOSE i \in own : \A j \in own : i <= j].msg

ErrorMsg(current_key, errors) ==
    FirstMsg(errors, {i \in 1..Len(errors) : errors[i].loc[1] = current_key})

\* an except branch that records the rejection in history
FlowRejectedRecorded(flow_state, current_key, e) ==
    Turn(AppendHistory(flow_state, AssistantEntry(ErrorMsg(current_key, e.errors))),
         FlowResponse("validation_error",
                      <<"Input Error: ">> \o ErrorMsg(current_key, e.errors)
                          \o <<" Please try again.">>,
                      FALSE, flow_state.answers, "flow"),
         <<>>)

\* an except branch that answers without the answers collected so far
FlowRejectedWithoutData(flow_state, current_key, e) ==
    Turn(flow_state,
         FlowResponse("validation_error",
                      <<"Input Error: ">> \o ErrorMsg(current_key, e.errors)
                          \o <<" Please try again.">>,
                      FALSE, EmptyDict, "flow"),
         <<>>)

\* the except ValidationError branch: nothing is stored
FlowRejected(flow_state, current_key, e) ==
    Turn(flow_state,
         FlowResponse("validation_error",
                      <<"Input Error: ">> \o ErrorMsg(current_key, e.errors)
                          \o <<" Please try again.">>,
                      FALSE, flow_state.answers, "flow"),
         <<>>)

\* a try branch that stores the answer and advances without recording the
\* user's entry
FlowAcceptedNoEntry(flow_state, current_key, user_input) ==
    [flow_state EXCEPT !.answers = DictSet(@, current_key, user_input),
                       !.step_index = @ + 1]

\* the try branch after TempValidator accepted the input
FlowAccepted(flow_state, current_key, user_input) ==
    [flow_state EXCEPT !.answers = DictSet(@, current_key, user_input),
                       !.history = Append(@, UserEntry(user_input)),
                       !.step_index = @ + 1]

\* the prompt is appended to history and returned
EmitPrompt(flow_state, key, bot_message) ==
    Turn(AppendHistory(flow_state, PromptEntry(bot_message, key)),
         FlowResponse("success", bot_message, FALSE, flow_state.answers, "flow"),
         <<>>)

\* a completion that rewinds the script
EmitCompletionRewinds(flow_state) ==
    Turn([flow_state EXCEPT !.is_complete = TRUE, !.step_index = 0],
         FlowResponse("success", <<"Thank you! The flow is now complete.">>,
                      TRUE, flow_state.answers, "flow"),
         <<>>)

\* a completion that answers complete without marking the session
EmitCompletionUnmarked(flow_state) ==
    Turn(flow_state,
         FlowResponse("success", <<"Thank you! The flow is now complete.">>,
                      TRUE, flow_state.answers, "flow"),
         <<>>)

\* the flow is marked complete
EmitCompletion(flow_state) ==
    Turn([flow_state EXCEPT !.is_complete = TRUE],
         FlowResponse("success", <<"Thank you! The flow is now complete.">>,
                      TRUE, flow_state.answers, "flow"),
         <<>>)

\* next_step['prompt'].replace("[name]", name), name = answers.get('name', 'there')
NextPrompt(flow_state, next_step) ==
    Replace(next_step.prompt, <<"[name]">>,
            DictGet(flow_state.answers, "name", <<"t","h","e","r","e">>))

\* Determine Next Message/Completion
FlowNextMessage(flow_state) ==
    IF flow_state.step_index < N
    THEN EmitPrompt(flow_state, CHAT_FLOW[flow_state.step_index + 1].key,
                    NextPrompt(flow_state, CHAT_FLOW[flow_state.step_index + 1]))
    ELSE EmitCompletion(flow_state)

\* a try block whose except branch is never taken: the input is stored
\* whatever TempValidator did
FlowValidatedStoresAnyway(flow_state, current_key, user_input, v) ==
    FlowNextMessage(FlowAccepted(flow_state, current_key, user_input))

\* try: TempValidator(...) ... except ValidationError, v being what
\* TempValidator did
FlowValidated(flow_state, current_key, user_input, v) ==
    IF v.raised
    THEN FlowRejected(flow_state, current_key, v)
    ELSE FlowNextMessage(FlowAccepted(flow_state, current_key, user_input))

\* a guard that lets an empty input through to validation
FlowValidatesAnyInput(flow_state, user_input) ==
    flow_state.step_index < N

\* whether the handler validates user_input in this turn
FlowValidates(flow_state, user_input) ==
    flow_state.step_index < N /\ user_input # <<>>

\* if current_step_index < len(CHAT_FLOW): ... if user_input: ...
FlowStep(flow_state, current_key, user_input) ==
    FlowValidated(flow_state, current_key, user_input,
                  TempValidator(current_key, user_input))

\* Flow logic without the is_complete guard
FlowModeUnguarded(flow_state, user_input) ==
    IF FlowValidates(flow_state, user_input)
    THEN FlowStep(flow_state, CHAT_FLOW[flow_state.step_index + 1].key, user_input)
    ELSE FlowNextMessage(flow_state)

\* 2. Flow Mode Logic
FlowMode(flow_state, user_input) ==
    IF flow_state.is_complete
    THEN Turn(flow_state,
              FlowResponse("complete",
                           <<"Flow is already complete. Use /flow/reset to start over.">>,
                           TRUE, flow_state.answers, "flow"),
              <<>>)
    ELSE IF FlowValidates(flow_state, user_input)
    THEN FlowStep(flow_state, CHAT_FLOW[flow_state.step_index + 1].key, user_input)
    ELSE FlowNextMessage(flow_state)

\* a selection that tests 'rag' before 'flow'
SelectBranchRagFirst(lower_input) ==
    IF Contains(lower_input, <<"r","a","g">>) THEN "rag"
    ELSE IF Contains(lower_input, <<"f","l","o","w">>) THEN "flow"
    ELSE "invalid"

\* the branch of mode selection taken for lower_input
SelectBranch(lower_input) ==
    IF Contains(lower_input, <<"f","l","o","w">>) THEN "flow"
    ELSE IF Contains(lower_input, <<"r","a","g">>) THEN "rag"
    ELSE "invalid"

\* lower_input = user_input.lower().strip(), then the branch
SelectMode(user_input) ==
    SelectBranch(Strip(Lower(user_input)))

\* a 'rag' branch that also marks the session complete
SelectRagCompletes(flow_state, user_input) ==
    Turn([flow_state EXCEPT !.mode = "rag", !.is_complete = TRUE,
                            !.history = Append(@, UserEntry(user_input))],
         FlowResponse("success",
                      <<"RAG Chatbot selected. Ask me any question about Jordan Peterson.">>,
                      FALSE, EmptyDict, "rag"),
         <<>>)

\* a 'rag' branch that stores the mode in upper case
SelectRagUpperCase(flow_state, user_input) ==
    Turn([flow_state EXCEPT !.mode = "RAG",
                            !.history = Append(@, UserEntry(user_input))],
         FlowResponse("success",
                      <<"RAG Chatbot selected. Ask me any question about Jordan Peterson.">>,
                      FALSE, EmptyDict, "rag"),
         <<>>)

\* mode selection, 'rag' branch
SelectRag(flow_state, user_input) ==
    Turn([flow_state EXCEPT !.mode = "rag",
                            !.history = Append(@, UserEntry(user_input))],
         FlowResponse("success",
                      <<"RAG Chatbot selected. Ask me any question about Jordan Peterson.">>,
                      FALSE, EmptyDict, "rag"),
         <<>>)

\* mode selection, invalid selection
SelectInvalid(flow_state, user_input) ==
    Turn(AppendHistory(flow_state, UserEntry(user_input)),
         FlowResponse("validation_error", INVALID_MODE_MESSAGE, FALSE, EmptyDict, "initial"),
         <<>>)

\* mode selection, 'flow' branch: the mode is stored and the handler falls
\* through to the Flow logic with the same user_input
SelectFlow(flow_state, user_input) ==
    FlowMode([flow_state EXCEPT !.mode = "flow"], user_input)

\* the three branches of mode selection
Selected(flow_state, user_input, branch) ==
    CASE branch = "flow" -> SelectFlow(flow_state, user_input)
      [] branch = "rag" -> SelectRag(flow_state, user_input)
      [] OTHER -> SelectInvalid(flow_state, user_input)

\* 0. Initial Mode Selection Logic
InitialMode(flow_state, user_input) ==
    IF user_input = <<>>
    THEN Turn(flow_state,
              FlowResponse("success", INITIAL_PROMPT, FALSE, EmptyDict, "initial"),
              <<>>)
    ELSE Selected(flow_state, user_input, SelectMode(user_input))

\* Fallback for unexpected state change
UnexpectedState(flow_state) ==
    Turn(flow_state,
         FlowResponse("error", <<"An unexpected state was reached. Please reset the flow.">>,
                      FALSE, EmptyDict, "initial"),
         <<>>)

\* a handler that lets the word rag switch a session already in Flow mode
HandleTurnSwitches(flow_state, user_input, env) ==
    CASE flow_state.mode = "initial" -> InitialMode(flow_state, user_input)
      [] flow_state.mode = "rag" -> RagMode(flow_state, user_input, env)
      [] flow_state.mode = "flow" /\ SelectMode(user_input) = "rag" ->
             SelectRag(flow_state, user_input)
      [] flow_state.mode = "flow" -> FlowMode(flow_state, user_input)
      [] OTHER -> UnexpectedState(flow_state)

\* the body of submit_flow_step on the session's state
HandleTurn(flow_state, user_input, env) ==
    CASE flow_state.mode = "initial" -> InitialMode(flow_state, user_input)
      [] flow_state.mode = "rag" -> RagMode(flow_state, user_input, env)
      [] flow_state.mode = "flow" -> FlowMode(flow_state, user_input)
      [] OTHER -> UnexpectedState(flow_state)

\* the store after the turn, the response and the calls
Reply(stored, session_id, t) ==
    [sessions |-> [stored EXCEPT ![session_id] = t.state],
     response |-> t.response,
     calls |-> t.calls]

\* the handler on the store get_session left
HandleStored(stored, session_id, user_input, env) ==
    Reply(stored, session_id, HandleTurn(stored[session_id], user_input, env))

\* POST /flow/submit
submit_flow_step(sessions, session_id, user_input, env) ==
    HandleStored(get_session(sessions, session_id), session_id, user_input, env)

\* a reset that answers success and leaves the entry in the store
reset_flow_keeps_entry(sessions, session_id) ==
    [sessions |-> sessions,
     response |-> FlowResponse("success",
                               <<"Flow state reset. Please start your conversation.">>,
                               FALSE, EmptyDict, "initial"),
     calls |-> <<>>]

\* a reset that reinitialises the entry in place and keeps its history
reset_flow_keeps_history(sessions, session_id) ==
    [sessions |-> [x \in DOMAIN sessions |->
                      IF x = session_id
                      THEN [NewSession EXCEPT !.history = sessions[x].history]
                      ELSE sessions[x]],
     response |-> FlowResponse("success",
                               <<"Flow state reset. Please start your conversation.">>,
                               FALSE, EmptyDict, "initial"),
     calls |-> <<>>]

\* POST /flow/reset
reset_flow(sessions, session_id) ==
    [sessions |-> [x \in (DOMAIN sessions) \ {session_id} |-> sessions[x]],
     response |-> FlowResponse("success",
                               <<"Flow state reset. Please start your conversation.">>,
                               FALSE, EmptyDict, "initial"),
     calls |-> <<>>]

\* ------------------------------------------------------------------------
\* The state machine: clients submit turns and reset sessions
\* ------------------------------------------------------------------------

VARIABLES
    API_SESSIONS,   \* the session store: session id -> session state
    request,        \* the request handled last
    response,       \* the response returned to it
    calls,          \* the capability invocations made while handling it
    script,         \* a scripted client's turns (empty when clients are free)
    sent,           \* how many turns of the script have been submitted
    first_run,      \* what a replaying client kept of its run before the reset
    routed,         \* a query put to the hybrid router on its own
    checked,        \* a value put to the validation of one field on its own
    session_state,  \* st.session_state of the Streamlit-side flow manager
    shown,          \* what the flow manager's last call showed and returned
    received,       \* the requests the server has received, in order
    served          \* how many of them the event loop has handled

vars ==
    <<API_SESSIONS, request, response, calls, script, sent, first_run, routed,
      checked, session_state, shown, received, served>>

\* the variables of the scripted clients, of the router, of the validation,
\* of the flow manager and of the event loop
script_vars ==
    <<script, sent, first_run>>

router_vars ==
    <<routed>>

rules_vars ==
    <<checked>>

manager_vars ==
    <<session_state, shown>>

loop_vars ==
    <<received, served>>

\* session ids the clients use
SessionIds ==
    {"s1"}

\* user inputs the clients submit: "", "Flow", "rag", "Web App", "8", "10000"
EmptyInput ==
    <<>>

InFlow ==
    <<"F","l","o","w">>

InRag ==
    <<"r","a","g">>

InWebApp ==
    <<"W","e","b"," ","A","p","p">>

In8 ==
    <<"8">>

In10000 ==
    <<"1","0","0","0","0">>

Inputs ==
    {EmptyInput, InFlow, InRag, InWebApp, In8, In10000}

\* what the classifier may answer: "RAG", " rag\n", "LLM", "maybe", ""
ClassifierTexts ==
    {<<"R","A","G">>, <<" ","r","a","g","\n">>, <<"L","L","M">>, <<"m","a","y","b","e">>, <<>>}

\* what the retriever may return: no passage, or two passages
RetrieverDocs ==
    {<<>>, <<[page_content |-> <<"passage one">>], [page_content |-> <<"passage two">>]>>}

\* what the generator may answer
GeneratorTexts ==
    {<<"generated answer">>}

Outcomes(values, failure) ==
    {[raised |-> FALSE, value |-> v] : v \in values}
        \cup {[raised |-> TRUE, value |-> failure]}

ClassifierOutcomes ==
    Outcomes(ClassifierTexts, <<"classifier unavailable">>)

RetrieverOutcomes ==
    Outcomes(RetrieverDocs, <<"index unavailable">>)

GeneratorOutcomes ==
    Outcomes(GeneratorTexts, <<"generator unavailable">>)

\* a capability that is not invoked in a turn has no outcome to choose
Idle ==
    [raised |-> TRUE, value |-> <<"not invoked">>]

Env(cls, ret, gen) ==
    [cls |-> cls, ret |-> ret, gen |-> gen]

HasCall(cap, made) ==
    \E i \in 1..Len(made) : made[i].cap = cap

\* whether handling the turn under env invokes the capability
Invokes(cap, session_id, user_input, env) ==
    HasCall(cap, submit_flow_step(API_SESSIONS, session_id, user_input, env).calls)

\* bounds of the exploration: the entries of a session's history, the user
\* entries among them, and the user entries of a session that is not in
\* Flow mode (mode selection and RAG queries)
MaxHist ==
    7

MaxUserTurns ==
    4

MaxChatTurns ==
    MaxUserTurns - 2

UserCount(history) ==
    Cardinality({i \in 1..Len(history) : history[i].role = "user"})

WithinBounds(sessions) ==
    \A sid \in DOMAIN sessions :
        /\ Len(sessions[sid].history) <= MaxHist
        /\ UserCount(sessions[sid].history) <=
              IF sessions[sid].mode = "flow" THEN MaxUserTurns ELSE MaxChatTurns

NoRequest ==
    [op |-> "none", session_id |-> "none", user_input |-> <<>>]

NoResponse ==
    FlowResponse("none", <<>>, FALSE, EmptyDict, "none")

NoRoute ==
    [done |-> FALSE, query |-> <<>>, env |-> Env(Idle, Idle, Idle),
     result |-> ChainResult(FALSE, <<>>, <<>>)]

NoCheck ==
    [done |-> FALSE, field |-> "none", value |-> <<>>, outcome |-> Returned(<<>>),
     state |-> NewSession, response |-> NoResponse]

NoRun ==
    [kept |-> FALSE, answers |-> EmptyDict, is_complete |-> FALSE]

\* the service has just started: no session is stored
ServiceStarted ==
    /\ API_SESSIONS = [x \in {} |-> NewSession]
    /\ request = NoRequest
    /\ response = NoResponse
    /\ calls = <<>>

\* the parts of the state a specification does not use stay as they are here
NoScript ==
    /\ script = <<>>
    /\ sent = 0
    /\ first_run = NoRun

NoRouter ==
    routed = NoRoute

NoRules ==
    checked = NoCheck

NoManager ==
    /\ session_state = [x \in {} |-> <<>>]
    /\ shown = <<>>

NoLoop ==
    /\ received = <<>>
    /\ served = 0

Init ==
    /\ ServiceStarted
    /\ NoScript
    /\ NoRouter
    /\ NoRules
    /\ NoManager
    /\ NoLoop

\* the handler's result r becomes the new state
Deliver(op, session_id, user_input, r) ==
    /\ API_SESSIONS' = r.sessions
    /\ request' = [op |-> op, session_id |-> session_id, user_input |-> user_input]
    /\ response' = r.response
    /\ calls' = r.calls

\* a client posts /flow/submit; each capability the turn invokes answers or
\* fails as it chooses
SubmitTurn(session_id, user_input) ==
    \E cls \in IF Invokes("classifier", session_id, user_input, Env(Idle, Idle, Idle))
               THEN ClassifierOutcomes ELSE {Idle} :
      \E ret \in IF Invokes("retriever", session_id, user_input, Env(cls, Idle, Idle))
                 THEN RetrieverOutcomes ELSE {Idle} :
        \E gen \in IF Invokes("generator", session_id, user_input, Env(cls, ret, Idle))
                   THEN GeneratorOutcomes ELSE {Idle} :
          Deliver("submit", session_id, user_input,
                  submit_flow_step(API_SESSIONS, session_id, user_input, Env(cls, ret, gen)))

Submit ==
    \E session_id \in SessionIds, user_input \in Inputs :
        /\ SubmitTurn(session_id, user_input)
        /\ WithinBounds(API_SESSIONS')
        /\ UNCHANGED <<script_vars, router_vars, rules_vars, manager_vars, loop_vars>>

\* a client posts /flow/reset
Reset ==
    \E session_id \in SessionIds :
        /\ Deliver("reset", session_id, <<>>, reset_flow(API_SESSIONS, session_id))
        /\ UNCHANGED <<script_vars, router_vars, rules_vars, manager_vars, loop_vars>>

Next ==
    \/ Submit
    \/ Reset

Spec ==
    Init /\ [][Next]_vars

\* ------------------------------------------------------------------------
\* A scripted client: mode selection, then one value per field of the flow
\* script, each valid for its field, submitted in script order
\* ------------------------------------------------------------------------

Accepts(field, v) ==
    ~FieldValidator(field, v).raised

ScriptSelections ==
    {<<"F","l","o","w">>, <<"f","l","o","w">>}

ScriptNames ==
    {v \in {<<"A","l","e","x"," ","J","o","h","n","s","o","n">>, <<"A","l","e","x">>} : Accepts("name", v)}

ScriptTypes ==
    {v \in {<<"W","e","b"," ","A","p","p"," ","D","e","v","e","l","o","p","m","e","n","t">>, <<"W","e","b"," ","A","p","p">>} : Accepts("projectType", v)}

ScriptDurations ==
    {v \in {<<"8">>, <<"1","2">>} : Accepts("duration", v)}

ScriptBudgets ==
    {v \in {<<"1","0","0","0","0">>, <<"5","0","0","0">>} : Accepts("budget", v)}

Scripts ==
    {<<m, n, t, d, b>> : m \in ScriptSelections, n \in ScriptNames, t \in ScriptTypes,
                         d \in ScriptDurations, b \in ScriptBudgets}

InitScript ==
    /\ ServiceStarted
    /\ script \in Scripts
    /\ sent = 0
    /\ first_run = NoRun
    /\ NoRouter
    /\ NoRules
    /\ NoManager
    /\ NoLoop

\* the client submits the next turn of its script
ScriptedSubmit ==
    /\ sent < Len(script)
    /\ SubmitTurn("s1", script[sent + 1])
    /\ sent' = sent + 1
    /\ UNCHANGED <<script, first_run, router_vars, rules_vars, manager_vars, loop_vars>>

NextScript ==
    ScriptedSubmit

SpecScript ==
    InitScript /\ [][NextScript]_vars

\* ------------------------------------------------------------------------
\* The hybrid router on its own: a query and what the classifier, the
\* retriever and the generator do are drawn, then the generator is called
\* ------------------------------------------------------------------------

RouterQueries ==
    Inputs \ {EmptyInput}

InitRouter ==
    /\ ServiceStarted
    /\ NoScript
    /\ NoRules
    /\ NoManager
    /\ NoLoop
    /\ routed \in {[done |-> FALSE, query |-> q, env |-> Env(cls, ret, gen),
                    result |-> ChainResult(FALSE, <<>>, <<>>)] :
                      q \in RouterQueries, cls \in ClassifierOutcomes,
                      ret \in RetrieverOutcomes, gen \in GeneratorOutcomes}

\* HYBRID_GENERATOR(query)
Route ==
    /\ ~routed.done
    /\ routed' = [routed EXCEPT !.done = TRUE,
                                !.result = HybridGenerator_call(routed.query, routed.env)]
    /\ UNCHANGED <<API_SESSIONS, request, response, calls, script_vars, rules_vars,
                   manager_vars, loop_vars>>

NextRouter ==
    Route

SpecRouter ==
    InitRouter /\ [][NextRouter]_vars

\* ------------------------------------------------------------------------
\* The validation of one field on its own: a field and a text are drawn,
\* then the field's validator is called on the text and, for a field a
\* Flow-mode session can be asked for, the Flow logic handles the text as
\* the turn of a session that is at the field's step
\* ------------------------------------------------------------------------

\* the characters of the texts: a letter, a blank, digits and signs
Alphabet ==
    {"a", " ", "0", "1", "5", "-", "+"}

MaxLen ==
    3

\* every text of at most MaxLen characters
Texts ==
    UNION {[1..n -> Alphabet] : n \in 0..MaxLen}

Fields ==
    {CHAT_FLOW[i].key : i \in 1..N}

\* the position in CHAT_FLOW of the step that asks for field
StepOf(field) ==
    CHOOSE i \in 1..N : CHAT_FLOW[i].key = field

\* an input the step at position i accepts
AcceptedAt(i) ==
    CASE i = 1 -> InFlow
      [] i = 2 -> InWebApp
      [] i = 3 -> In8
      [] OTHER -> In10000

\* the session the handler finds at the step at position i: at the first
\* step, the state mode selection hands to the Flow logic; at a later step,
\* the state the accepted turns before it left
RECURSIVE SessionAt(_)
SessionAt(i) ==
    IF i = 1 THEN [NewSession EXCEPT !.mode = "flow"]
    ELSE FlowMode(SessionAt(i - 1), AcceptedAt(i - 1)).state

\* what was drawn and what came of it
Check(field, value, outcome, after, reply) ==
    [done |-> TRUE, field |-> field, value |-> value, outcome |-> outcome,
     state |-> after, response |-> reply]

\* the turn of a session at the step of field; the name step is reached
\* through mode selection only, so no turn is taken for it
CheckTurn(field, value, outcome, t) ==
    IF field = "name"
    THEN Check(field, value, outcome, NewSession, NoResponse)
    ELSE Check(field, value, outcome, t.state, t.response)

InitRules ==
    /\ ServiceStarted
    /\ NoScript
    /\ NoRouter
    /\ NoManager
    /\ NoLoop
    /\ checked \in {[done |-> FALSE, field |-> f, value |-> v,
                     outcome |-> Returned(<<>>), state |-> NewSession,
                     response |-> NoResponse] : f \in Fields, v \in Texts}

\* the validator of the field, and the Flow logic, on the text
Validate ==
    /\ ~checked.done
    /\ checked' = CheckTurn(checked.field, checked.value,
                            FieldValidator(checked.field, checked.value),
                            FlowMode(SessionAt(StepOf(checked.field)), checked.value))
    /\ UNCHANGED <<API_SESSIONS, request, response, calls, script_vars, router_vars,
                   manager_vars, loop_vars>>

NextRules ==
    Validate

SpecRules ==
    InitRules /\ [][NextRules]_vars

\* ------------------------------------------------------------------------
\* The Streamlit-side flow manager (application/flow_manager.py)
\* ------------------------------------------------------------------------

\* the fields of ProjectData, in declaration order
ModelFields ==
    <<"name", "projectType", "duration", "budget">>

\* the entries pydantic reports for one field of ProjectData(**given): the
\* field is required, and its validator runs when it is given
FieldErrors(given, field) ==
    IF field \notin DOMAIN given
    THEN << [loc |-> <<field>>, msg |-> <<"Field required">>] >>
    ELSE ValidationOutcome(field, FieldValidator(field, given[field])).errors

AllErrors(given) ==
    FieldErrors(given, ModelFields[1]) \o FieldErrors(given, ModelFields[2])
        \o FieldErrors(given, ModelFields[3]) \o FieldErrors(given, ModelFields[4])

\* ValidationError is raised when any field has an entry
Validated(errors) ==
    [raised |-> errors # <<>>, errors |-> errors]

\* ProjectData(**given)
ProjectData(given) ==
    Validated(AllErrors(given))

\* the flow_state initialize_session_state and reset_flow_state store
NewFlowState ==
    [step_index |-> 0, answers |-> EmptyDict, history |-> <<>>, is_complete |-> FALSE]

initialize_session_state ==
    [mode |-> "flow", flow_state |-> NewFlowState]

\* what a call of the manager showed and returned
Shown(op, user_input, error, placeholder, rerun) ==
    [op |-> op, user_input |-> user_input, error |-> error,
     placeholder |-> placeholder, rerun |-> rerun]

\* a call's effect: the flow_state it leaves and what it showed
Managed(flow_state, out) ==
    [flow_state |-> flow_state, shown |-> out]

\* 4. Check for completion
MarkComplete(flow_state) ==
    IF flow_state.step_index >= N
    THEN [flow_state EXCEPT !.is_complete = TRUE]
    ELSE flow_state

\* 2. and 3.: the answer is stored and the step advances
StoreAnswer(flow_state, current_step, user_input) ==
    [flow_state EXCEPT !.history = Append(@, UserEntry(user_input)),
                       !.answers = DictSet(@, current_step.key, user_input),
                       !.step_index = @ + 1]

\* try: ProjectData(...) except ValidationError, v being what ProjectData did
SubmitValidated(flow_state, current_step, user_input, v) ==
    IF v.raised
    THEN Managed(flow_state,
                 Shown("handle_flow_submit", user_input,
                       <<"Validation Error: ">>
                           \o ErrorMsg(current_step.model_field, v.errors),
                       <<>>, FALSE))
    ELSE Managed(MarkComplete(StoreAnswer(flow_state, current_step, user_input)),
                 Shown("handle_flow_submit", user_input, <<>>, <<>>, TRUE))

\* the dict handed to ProjectData: the current step's field only
OnlyField(field, user_input) ==
    [k \in {field} |-> user_input]

SubmitAtStep(flow_state, current_step, user_input) ==
    SubmitValidated(flow_state, current_step, user_input,
                    ProjectData(OnlyField(current_step.model_field, user_input)))

handle_flow_submit(flow_state, user_input) ==
    IF flow_state.is_complete
    THEN Managed(flow_state, Shown("handle_flow_submit", user_input, <<>>, <<>>, FALSE))
    ELSE SubmitAtStep(flow_state, CHAT_FLOW[flow_state.step_index + 1], user_input)

\* a condition that looks at the last entry's role instead of its key
PromptDueUnlessUserSpoke(history, key) ==
    \/ history = <<>>
    \/ history[Len(history)].role = "assistant"

\* not flow_state['history'] or flow_state['history'][-1].get('key') != key
PromptDue(history, key) ==
    \/ history = <<>>
    \/ "key" \notin DOMAIN history[Len(history)]
    \/ history[Len(history)].key # key

PromptAtStep(flow_state, current_step) ==
    Managed(IF PromptDue(flow_state.history, current_step.key)
            THEN AppendHistory(flow_state,
                               PromptEntry(current_step.prompt, current_step.key))
            ELSE flow_state,
            Shown("get_current_bot_response", <<>>, <<>>, current_step.placeholder, FALSE))

get_current_bot_response(flow_state) ==
    IF flow_state.is_complete
    THEN Managed(flow_state, Shown("get_current_bot_response", <<>>, <<>>, <<>>, FALSE))
    ELSE PromptAtStep(flow_state, CHAT_FLOW[flow_state.step_index + 1])

reset_flow_state ==
    Managed(NewFlowState, Shown("reset_flow_state", <<>>, <<>>, <<>>, TRUE))

\* the page's script has run initialize_session_state
InitManager ==
    /\ ServiceStarted
    /\ NoScript
    /\ NoRouter
    /\ NoRules
    /\ NoLoop
    /\ session_state = initialize_session_state
    /\ shown = Shown("none", <<>>, <<>>, <<>>, FALSE)

\* the texts handed to the manager
ManagerTexts ==
    {t \in Texts : \A i \in 1..Len(t) : t[i] \in {"a", " ", "0", "1"}}

\* the call's effect becomes the new state
Manage(r) ==
    /\ session_state' = [session_state EXCEPT !.flow_state = r.flow_state]
    /\ shown' = r.shown

HandleFlowSubmit ==
    \E user_input \in ManagerTexts :
        /\ Manage(handle_flow_submit(session_state.flow_state, user_input))
        /\ UNCHANGED <<API_SESSIONS, request, response, calls, script_vars, router_vars,
                       rules_vars, loop_vars>>

GetCurrentBotResponse ==
    /\ Manage(get_current_bot_response(session_state.flow_state))
    /\ UNCHANGED <<API_SESSIONS, request, response, calls, script_vars, router_vars,
                   rules_vars, loop_vars>>

ResetFlowState ==
    /\ Manage(reset_flow_state)
    /\ UNCHANGED <<API_SESSIONS, request, response, calls, script_vars, router_vars,
                   rules_vars, loop_vars>>

NextManager ==
    \/ HandleFlowSubmit
    \/ GetCurrentBotResponse
    \/ ResetFlowState

SpecManager ==
    InitManager /\ [][NextManager]_vars

\* ------------------------------------------------------------------------
\* A replaying client: it submits a script of Flow inputs, resets the
\* session, and submits the same script again
\* ------------------------------------------------------------------------

ReplayLen ==
    4

ReplayInputs ==
    {InFlow, InWebApp, In8, In10000}

ReplayScripts ==
    [1..ReplayLen -> ReplayInputs]

InitReplay ==
    /\ ServiceStarted
    /\ script \in ReplayScripts
    /\ sent = 0
    /\ first_run = NoRun
    /\ NoRouter
    /\ NoRules
    /\ NoManager
    /\ NoLoop

\* the next turn of the script
ReplaySubmit ==
    /\ sent < Len(script)
    /\ SubmitTurn("s1", script[sent + 1])
    /\ sent' = sent + 1
    /\ UNCHANGED <<script, first_run, router_vars, rules_vars, manager_vars, loop_vars>>

\* after the first run the client keeps what the session holds and resets it
ReplayReset ==
    /\ sent = Len(script)
    /\ ~first_run.kept
    /\ Deliver("reset", "s1", <<>>, reset_flow(API_SESSIONS, "s1"))
    /\ first_run' = [kept |-> TRUE,
                     answers |-> API_SESSIONS["s1"].answers,
                     is_complete |-> API_SESSIONS["s1"].is_complete]
    /\ sent' = 0
    /\ UNCHANGED <<script, router_vars, rules_vars, manager_vars, loop_vars>>

NextReplay ==
    \/ ReplaySubmit
    \/ ReplayReset

SpecReplay ==
    InitReplay /\ [][NextReplay]_vars

\* ------------------------------------------------------------------------
\* The server's event loop: requests are received while others wait, and
\* the loop runs one handler at a time, each to its end (the handlers are
\* coroutines without an await), in the order the requests were received
\* ------------------------------------------------------------------------

MaxReceived ==
    5

Request(op, session_id, user_input) ==
    [op |-> op, session_id |-> session_id, user_input |-> user_input]

LoopRequests ==
    {Request("submit", "s1", v) : v \in {InFlow, InWebApp, In10000}}
        \cup {Request("reset", "s1", <<>>)}

\* a loop that runs the newest request first
DispatchedNewest(queue, done) ==
    Len(queue)

\* the position in the received requests of the one the loop runs next,
\* done being the number already handled
Dispatched(queue, done) ==
    done + 1

\* the handler of a request on the store
Handle(sessions, req) ==
    IF req.op = "reset"
    THEN reset_flow(sessions, req.session_id)
    ELSE submit_flow_step(sessions, req.session_id, req.user_input, Env(Idle, Idle, Idle))

InitLoop ==
    /\ ServiceStarted
    /\ NoScript
    /\ NoRouter
    /\ NoRules
    /\ NoManager
    /\ received = <<>>
    /\ served = 0

\* a request arrives while earlier ones may still wait
Receive ==
    \E req \in LoopRequests :
        /\ Len(received) < MaxReceived
        /\ received' = Append(received, req)
        /\ UNCHANGED <<API_SESSIONS, request, response, calls, served, script_vars,
                       router_vars, rules_vars, manager_vars>>

\* the loop runs the handler of the next request to its end
Serve ==
    /\ served < Len(received)
    /\ Deliver(received[Dispatched(received, served)].op,
               received[Dispatched(received, served)].session_id,
               received[Dispatched(received, served)].user_input,
               Handle(API_SESSIONS, received[Dispatched(received, served)]))
    /\ served' = served + 1
    /\ UNCHANGED <<received, script_vars, router_vars, rules_vars, manager_vars>>

NextLoop ==
    \/ Receive
    \/ Serve

SpecLoop ==
    InitLoop /\ [][NextLoop]_vars

\* ------------------------------------------------------------------------
\* Two clients, each with a session id of its own
\* ------------------------------------------------------------------------

PairIds ==
    {"s1", "s2"}

PairInputs ==
    {InFlow, InRag}

\* bound of the exploration: the entries of each session's history
PairMaxHist ==
    3

PairWithinBounds(sessions) ==
    \A sid \in DOMAIN sessions : Len(sessions[sid].history) <= PairMaxHist

\* either client posts /flow/submit
PairSubmit ==
    \E session_id \in PairIds, user_input \in PairInputs :
        /\ SubmitTurn(session_id, user_input)
        /\ PairWithinBounds(API_SESSIONS')
        /\ UNCHANGED <<script_vars, router_vars, rules_vars, manager_vars, loop_vars>>

\* either client posts /flow/reset
PairReset ==
    \E session_id \in PairIds :
        /\ Deliver("reset", session_id, <<>>, reset_flow(API_SESSIONS, session_id))
        /\ UNCHANGED <<script_vars, router_vars, rules_vars, manager_vars, loop_vars>>

NextPair ==
    \/ PairSubmit
    \/ PairReset

SpecPair ==
    Init /\ [][NextPair]_vars

\* ------------------------------------------------------------------------
\* A client that answers the mode prompt in its own words
\* ------------------------------------------------------------------------

\* what the client types: the two words alone, in other letter cases, inside
\* longer words, together in either order, and texts holding neither
SelectInputs ==
    {<<"f","l","o","w">>, <<" ","F","L","O","W"," ">>, <<"o","v","e","r","f","l","o","w">>, <<"D","r","a","g","o","n","f","l","o","w","e","r">>, <<"r","a","g"," ","f","l","o","w">>, <<"f","l","o","w"," ","r","a","g">>,
     <<"r","a","g">>, <<"g","a","r","a","g","e">>, <<"t","h","e"," ","d","R","A","G","o","n">>, <<"f","l"," ","o","w">>, <<"h","e","l","l","o">>}

\* bound of the exploration: the entries of the session's history
SelectMaxHist ==
    2

SelectWithinBounds(sessions) ==
    \A sid \in DOMAIN sessions : Len(sessions[sid].history) <= SelectMaxHist

\* the client posts /flow/submit
SelectSubmit ==
    \E user_input \in SelectInputs :
        /\ SubmitTurn("s1", user_input)
        /\ SelectWithinBounds(API_SESSIONS')
        /\ UNCHANGED <<script_vars, router_vars, rules_vars, manager_vars, loop_vars>>

\* the client posts /flow/reset
SelectReset ==
    /\ Deliver("reset", "s1", <<>>, reset_flow(API_SESSIONS, "s1"))
    /\ UNCHANGED <<script_vars, router_vars, rules_vars, manager_vars, loop_vars>>

NextSelect ==
    \/ SelectSubmit
    \/ SelectReset

SpecSelect ==
    Init /\ [][NextSelect]_vars

\* ------------------------------------------------------------------------
\* The Streamlit client (chatbot_ui/src/streamlit.py)
\*
\* session_state holds st.session_state of the client; shown holds what the
\* last script run did: the call made, the input and how the request ended.
\* ------------------------------------------------------------------------

\* summary_data: None, or the data of the completing response
NoSummary ==
    [present |-> FALSE, data |-> EmptyDict]

Summary(data) ==
    [present |-> TRUE, data |-> data]

\* st.session_state as initialize_session_state leaves it before the first
\* call (the uuid4 session id is "s1")
NewClientState ==
    [session_id |-> "s1", history |-> <<>>, is_complete |-> FALSE,
     summary_data |-> NoSummary, mode |-> "initial"]

\* how requests.post and response.json() may end: the connection fails, the
\* server answers with a status code >= 400, the body is not JSON, or the
\* handler's response arrives
Posted ==
    {"connection_error", "http_error", "bad_body", "ok"}

\* 1. Add user message to history before sending
Optimistic(state, user_input) ==
    IF user_input # <<>>
    THEN [state EXCEPT !.history = Append(@, UserEntry(user_input))]
    ELSE state

\* if user_input: st.session_state.history.pop()
PopUser(state, user_input) ==
    IF user_input # <<>>
    THEN [state EXCEPT !.history = SubSeq(@, 1, Len(@) - 1)]
    ELSE state

\* a handler of the connection error that removes the message again
OnFailurePopsAlways(state, user_input, posted) ==
    PopUser(state, user_input)

\* the request ended without a response: status code >= 400, except
\* requests.exceptions.ConnectionError, except Exception
OnFailure(state, user_input, posted) ==
    CASE posted = "http_error" -> PopUser(state, user_input)
      [] posted = "connection_error" -> state
      [] OTHER -> PopUser(state, user_input)

\* 2. Update State on Success
UpdateOnSuccess(state, api_response) ==
    [state EXCEPT !.is_complete = api_response.is_complete,
                  !.mode = api_response.mode,
                  !.history = Append(@, AssistantEntry(api_response.bot_message)),
                  !.summary_data = IF api_response.is_complete /\ api_response.mode = "flow"
                                   THEN Summary(api_response.data)
                                   ELSE @]

\* the response arrived: a validation_error removes the user message,
\* anything else updates the state
OnResponse(state, user_input, api_response) ==
    IF api_response.status = "validation_error"
    THEN PopUser(state, user_input)
    ELSE UpdateOnSuccess(state, api_response)

\* make_api_call returns at once: the flow is complete and this is not the
\* initial call
Skips(state, initial_call) ==
    state.is_complete /\ state.mode = "flow" /\ ~initial_call

\* what the run did
Ran(op, user_input, posted, status) ==
    [op |-> op, user_input |-> user_input, posted |-> posted, status |-> status]

\* make_api_call(user_input, initial_call) on the client state: the request
\* is posted, the server handles it if it arrives, and the client state is
\* updated from how the request ended
make_api_call(state, user_input, op) ==
    \E posted \in Posted :
        IF posted = "ok"
        THEN /\ SubmitTurn(state.session_id, user_input)
             /\ session_state' = OnResponse(Optimistic(state, user_input), user_input, response')
             /\ shown' = Ran(op, user_input, posted, response'.status)
        ELSE /\ UNCHANGED <<API_SESSIONS, request, response, calls>>
             /\ session_state' = OnFailure(Optimistic(state, user_input), user_input, posted)
             /\ shown' = Ran(op, user_input, posted, "none")

\* the user messages of the client's history that no assistant message
\* follows
Unanswered(history) ==
    {i \in 1..Len(history) :
        /\ history[i].role = "user"
        /\ (i = Len(history) \/ history[i + 1].role = "user")}

\* what the user types: enough to select either mode and to pass through
\* the flow script
ClientInputs ==
    {InFlow, InRag, InWebApp, In10000}

\* bounds of the exploration: the server's history holds no more than one
\* pass through the flow script leaves, or, outside Flow mode, a selection,
\* a query and its answer; and a client is followed until its history holds
\* a user message that was never answered
ClientWithinBounds ==
    /\ \A sid \in DOMAIN API_SESSIONS' :
          Len(API_SESSIONS'[sid].history) <=
              IF API_SESSIONS'[sid].mode = "flow" THEN 2 * N - 1 ELSE N - 1
    /\ Unanswered(session_state.history) = {}

InitClient ==
    /\ ServiceStarted
    /\ NoScript
    /\ NoRouter
    /\ NoRules
    /\ NoLoop
    /\ session_state = NewClientState
    /\ shown = Ran("none", <<>>, "none", "none")

\* a script run with an empty history: initialize_session_state makes the
\* initial call
ClientInitialCall ==
    /\ session_state.history = <<>>
    /\ make_api_call(session_state, <<>>, "initial")
    /\ ClientWithinBounds
    /\ UNCHANGED <<script_vars, router_vars, rules_vars, loop_vars>>

\* a script run in which st.chat_input returned a prompt (the input is
\* disabled once the flow is complete)
ClientPrompt ==
    \E prompt \in ClientInputs :
        /\ ~(session_state.is_complete /\ session_state.mode = "flow")
        /\ ~Skips(session_state, FALSE)
        /\ make_api_call(session_state, prompt, "submit")
        /\ ClientWithinBounds
        /\ UNCHANGED <<script_vars, router_vars, rules_vars, loop_vars>>

\* the store after requests.post(/flow/reset), which may not arrive
AfterResetPost(sessions, session_id, arrived) ==
    IF arrived THEN reset_flow(sessions, session_id).sessions ELSE sessions

\* the initial call that follows the reset, on the store the reset left
ResetThenCall(stored, state, posted) ==
    IF posted = "ok"
    THEN /\ Deliver("submit", state.session_id, <<>>,
                    submit_flow_step(stored, state.session_id, <<>>, Env(Idle, Idle, Idle)))
         /\ session_state' = OnResponse(state, <<>>, response')
         /\ shown' = Ran("reset", <<>>, posted, response'.status)
    ELSE /\ API_SESSIONS' = stored
         /\ UNCHANGED <<request, response, calls>>
         /\ session_state' = OnFailure(state, <<>>, posted)
         /\ shown' = Ran("reset", <<>>, posted, "none")

\* reset_flow_state: the "Start New Flow" button of the summary, shown when
\* the flow is complete
ClientReset ==
    /\ session_state.is_complete /\ session_state.mode = "flow"
    /\ \E arrived \in BOOLEAN, posted \in Posted :
          ResetThenCall(AfterResetPost(API_SESSIONS, session_state.session_id, arrived),
                        NewClientState, posted)
    /\ UNCHANGED <<script_vars, router_vars, rules_vars, loop_vars>>

NextClient ==
    \/ ClientInitialCall
    \/ ClientPrompt
    \/ ClientReset

SpecClient ==
    InitClient /\ [][NextClient]_vars

\* ------------------------------------------------------------------------
\* What a step of the service does to the session it addresses
\* ------------------------------------------------------------------------

\* the step handles a submit request
Submitted ==
    request'.op = "submit"

\* the addressed session as the handler finds it (created if unseen)
Old ==
    get_session(API_SESSIONS, request'.session_id)[request'.session_id]

\* the addressed session after the step
New ==
    API_SESSIONS'[request'.session_id]

\* the fields of a session other than its history
Core(s) ==
    <<s.mode, s.step_index, s.answers, s.is_complete>>

\* the field the flow script asks for at the session's step
KeyAt(s) ==
    CHAT_FLOW[s.step_index + 1].key

\* the session has entries, the last of which is e
EndsWith(s, e) ==
    s.history # <<>> /\ s.history[Len(s.history)] = e

\* some capability invocation of the turn raised
Failed(made) ==
    made # <<>> /\ made[Len(made)].raised

\* ------------------------------------------------------------------------
\* Properties
\* ------------------------------------------------------------------------

\* C1 (as stated): for an Initial-mode session, a submit turn whose input
\* contains "flow" in any case sets the mode to flow, leaves step_index at 0
\* and answers empty, and returns a success response whose bot_message is
\* the prompt of the first step of the flow script.
C1_FlowSelectionAsksFirstQuestion ==
    [][(/\ Submitted
        /\ Old.mode = "initial"
        /\ Contains(Lower(request'.user_input), <<"f","l","o","w">>))
       => (/\ New.mode = "flow"
           /\ New.step_index = 0
           /\ New.answers = EmptyDict
           /\ response'.status = "success"
           /\ response'.bot_message = CHAT_FLOW[1].prompt)]_vars

\* C2 (as stated): from a fresh session, mode selection followed by one
\* valid value for each of name, projectType, duration and budget in script
\* order ends with a success response, is_complete true, whose data maps
\* each key to the value submitted for it.
C2_ScriptCollectsSubmittedValues ==
    (script # <<>> /\ sent = Len(script))
    => (/\ response.status = "success"
        /\ response.is_complete
        /\ response.data = [k \in {"name", "projectType", "duration", "budget"} |->
                              CASE k = "name" -> script[2]
                                [] k = "projectType" -> script[3]
                                [] k = "duration" -> script[4]
                                [] k = "budget" -> script[5]])

\* C3: a Flow-mode turn at a step below N of a session not complete, whose
\* non-empty input the rule of the step's field rejects, answers
\* validation_error and leaves answers, step_index, history, mode and
\* is_complete exactly as they were.
C3_RejectedInputChangesNothing ==
    [][(/\ Submitted
        /\ request'.user_input # <<>>
        /\ Old.mode = "flow"
        /\ ~Old.is_complete
        /\ Old.step_index < N
        /\ FieldValidator(KeyAt(Old), request'.user_input).raised)
       => (/\ response'.status = "validation_error"
           /\ New = Old)]_vars

\* a rejected value at the duration step: the session is still at step 2
C3_Witness ==
    /\ request.op = "submit"
    /\ request.user_input = InWebApp
    /\ response.status = "validation_error"
    /\ response.mode = "flow"
    /\ "s1" \in DOMAIN API_SESSIONS
    /\ API_SESSIONS["s1"].step_index = 2
    /\ "duration" \notin DOMAIN API_SESSIONS["s1"].answers

\* C4: a Flow-mode turn at a step below N whose non-empty input is accepted
\* sets answers[key of the step] to the raw input and no other entry,
\* appends the user's entry to history after what was there, and raises
\* step_index by exactly 1.
C4_AcceptedInputStoresOneAnswer ==
    [][(/\ Submitted
        /\ request'.user_input # <<>>
        /\ Old.mode = "flow"
        /\ ~Old.is_complete
        /\ Old.step_index < N
        /\ ~FieldValidator(KeyAt(Old), request'.user_input).raised)
       => (/\ DOMAIN New.answers = DOMAIN Old.answers \cup {KeyAt(Old)}
           /\ New.answers[KeyAt(Old)] = request'.user_input
           /\ \A k \in DOMAIN Old.answers \ {KeyAt(Old)} : New.answers[k] = Old.answers[k]
           /\ Len(New.history) > Len(Old.history)
           /\ SubSeq(New.history, 1, Len(Old.history)) = Old.history
           /\ New.history[Len(Old.history) + 1] = UserEntry(request'.user_input)
           /\ New.step_index = Old.step_index + 1)]_vars

\* an accepted duration: the raw text is stored and the session is at step 3
C4_Witness ==
    /\ request.op = "submit"
    /\ request.user_input = In8
    /\ response.status = "success"
    /\ "s1" \in DOMAIN API_SESSIONS
    /\ API_SESSIONS["s1"].step_index = 3
    /\ "duration" \in DOMAIN API_SESSIONS["s1"].answers
    /\ API_SESSIONS["s1"].answers["duration"] = In8
    /\ "budget" \notin DOMAIN API_SESSIONS["s1"].answers

\* C5: over submit turns, with no reset in between, step_index of a session
\* never decreases from one turn to the next, and it always lies in 0..N,
\* N being the length of the flow script, 4.
C5_StepIndexMonotoneAndBounded ==
    [][/\ N = 4
       /\ \A sid \in DOMAIN API_SESSIONS' : API_SESSIONS'[sid].step_index \in 0..N
       /\ Submitted => New.step_index >= Old.step_index]_vars

\* the last step of the script was answered: step_index is N
C5_Witness ==
    /\ request.op = "submit"
    /\ "s1" \in DOMAIN API_SESSIONS
    /\ API_SESSIONS["s1"].step_index = N
    /\ API_SESSIONS["s1"].is_complete

\* C6 (as stated): for an Initial-mode session, a submit turn whose
\* non-empty input contains neither "flow" nor "rag" answers
\* validation_error with mode initial, leaves the stored mode initial and
\* appends nothing to the session's history.
C6_InvalidSelectionLeavesHistory ==
    [][(/\ Submitted
        /\ request'.user_input # <<>>
        /\ Old.mode = "initial"
        /\ ~Contains(Lower(request'.user_input), <<"f","l","o","w">>)
        /\ ~Contains(Lower(request'.user_input), <<"r","a","g">>))
       => (/\ response'.status = "validation_error"
           /\ response'.mode = "initial"
           /\ New.mode = "initial"
           /\ New.history = Old.history)]_vars

\* C7 (as stated): after a RAG-mode turn that failed because the classifier,
\* the retriever or the generator raised, the session's history holds no
\* user entry for the query that lacks an assistant entry after it (no entry
\* in history marks a turn as failed).
C7_FailedTurnLeavesNoDanglingEntry ==
    (/\ request.op = "submit"
     /\ request.session_id \in DOMAIN API_SESSIONS
     /\ API_SESSIONS[request.session_id].mode = "rag"
     /\ Failed(calls))
    => ~EndsWith(API_SESSIONS[request.session_id], UserEntry(request.user_input))

\* C8: a failure raised by the classifier, the retriever or the generator in
\* a RAG-mode turn becomes a response of status error and mode rag, with the
\* session's mode, step_index, answers and is_complete as before the turn;
\* and every submit turn, in any mode, ends in one of the handler's own
\* responses, never in an exception leaving the handler.
C8_FailuresBecomeErrorResponses ==
    [][Submitted
       => (/\ response'.status \in {"success", "validation_error", "error", "complete"}
           /\ Failed(calls') => (/\ Old.mode = "rag"
                                 /\ response'.status = "error"
                                 /\ response'.mode = "rag"
                                 /\ Core(New) = Core(Old)))]_vars

\* a RAG-mode turn in which the retriever raised, answered with an error
C8_Witness ==
    /\ request.op = "submit"
    /\ Failed(calls)
    /\ calls[Len(calls)].cap = "retriever"
    /\ response.status = "error"
    /\ response.mode = "rag"

\* C9: a session whose mode is rag has is_complete false, step_index 0 and
\* answers empty; and no turn of a RAG-mode session, answered, failed or
\* empty, changes its mode, step_index, answers or is_complete.
C9_RagModeLeavesFlowFieldsAlone ==
    [][/\ \A sid \in DOMAIN API_SESSIONS' :
            API_SESSIONS'[sid].mode = "rag"
            => Core(API_SESSIONS'[sid]) = <<"rag", 0, EmptyDict, FALSE>>
       /\ (Submitted /\ Old.mode = "rag") => Core(New) = Core(Old)]_vars

\* a RAG-mode session after an answered query
C9_Witness ==
    /\ request.op = "submit"
    /\ request.user_input # <<>>
    /\ response.status = "success"
    /\ "s1" \in DOMAIN API_SESSIONS
    /\ API_SESSIONS["s1"].mode = "rag"
    /\ Len(API_SESSIONS["s1"].history) >= 3
    /\ EndsWith(API_SESSIONS["s1"], AssistantEntry(response.bot_message))

\* text is the word RAG, in any case, between any whitespace
SaysRag(text) ==
    \E a \in 0..Len(text) :
        /\ a + 3 <= Len(text)
        /\ \A i \in 1..a : text[i] \in Whitespace
        /\ text[a + 1] \in {"r", "R"}
        /\ text[a + 2] \in {"a", "A"}
        /\ text[a + 3] \in {"g", "G"}
        /\ \A i \in (a + 4)..Len(text) : text[i] \in Whitespace

\* the capabilities a routed query reached, in order
Path(result) ==
    [i \in 1..Len(result.calls) |-> <<result.calls[i].cap, result.calls[i].prompt>>]

\* C10: in the hybrid router, a classifier output that is not RAG after
\* trimming and ignoring case (an unrecognised word or an empty output
\* included) sends the query down the direct path, the retriever is not
\* consulted and the generator's answer is returned; an output that is RAG
\* in any case, whitespace around it ignored, and only such an output,
\* sends it down the retrieval path.
C10_OnlyRagSelectsRetrieval ==
    (routed.done /\ ~routed.env.cls.raised)
    => IF SaysRag(routed.env.cls.value)
       THEN /\ Len(routed.result.calls) >= 2
            /\ Path(routed.result)[2] = <<"retriever", "none">>
       ELSE /\ Path(routed.result) = << <<"classifier", "classifier_prompt">>,
                                       <<"generator", "llm_prompt">> >>
            /\ routed.result.calls[2].query = routed.query
            /\ ~routed.env.gen.raised
               => (/\ ~routed.result.raised
                   /\ routed.result.value.response = routed.env.gen.value)

\* an unrecognised classifier output, answered on the direct path
C10_Witness ==
    /\ routed.done
    /\ ~routed.env.cls.raised
    /\ routed.env.cls.value = <<"m","a","y","b","e">>
    /\ ~routed.result.raised
    /\ Len(routed.result.calls) = 2

\* C11: a reset of a session id leaves the id as a fresh session for the
\* next submit (mode initial, step_index 0, no answers, no history, not
\* complete) and answers success, mode initial, is_complete false; it
\* succeeds for an id that is not stored, and a second reset changes nothing
\* more.
C11_ResetRestoresFreshSession ==
    [][request'.op = "reset"
       => (/\ get_session(API_SESSIONS', request'.session_id)[request'.session_id]
                 = [mode |-> "initial", step_index |-> 0, answers |-> EmptyDict,
                    history |-> <<>>, is_complete |-> FALSE]
           /\ response'.status = "success"
           /\ response'.mode = "initial"
           /\ ~response'.is_complete
           /\ reset_flow(API_SESSIONS', request'.session_id).sessions = API_SESSIONS'
           /\ reset_flow(API_SESSIONS', request'.session_id).response = response')]_vars

\* a reset answered while no session is stored
C11_Witness ==
    /\ request.op = "reset"
    /\ request.session_id = "s1"
    /\ "s1" \notin DOMAIN API_SESSIONS
    /\ response.status = "success"

\* C12: for a Flow-mode session that is complete, every further submit turn,
\* with an empty or a non-empty input, answers status complete with
\* is_complete true and data equal to the stored answers, and leaves the
\* session exactly as it was.
C12_CompleteSessionIsFrozen ==
    [][(Submitted /\ Old.mode = "flow" /\ Old.is_complete)
       => (/\ response'.status = "complete"
           /\ response'.is_complete
           /\ response'.data = Old.answers
           /\ New = Old)]_vars

\* a non-empty turn submitted after the flow ended
C12_Witness ==
    /\ request.op = "submit"
    /\ request.user_input # <<>>
    /\ response.status = "complete"
    /\ "s1" \in DOMAIN API_SESSIONS
    /\ API_SESSIONS["s1"].is_complete
    /\ API_SESSIONS["s1"].step_index = N

\* C13: an empty user_input is never an answer: in every mode the turn
\* validates nothing, leaves mode, step_index, answers and is_complete as
\* they were and invokes no capability; for a session in Initial mode (a new
\* one included) it answers success, mode initial, with the mode-selection
\* prompt, and changes nothing.
C13_EmptyInputIsNoAnswer ==
    [][(Submitted /\ request'.user_input = <<>>)
       => (/\ Core(New) = Core(Old)
           /\ calls' = <<>>
           /\ response'.status \in {"success", "complete"}
           /\ Old.mode = "initial"
              => (/\ response' = FlowResponse("success", INITIAL_PROMPT, FALSE,
                                              EmptyDict, "initial")
                  /\ New = Old))]_vars

\* an empty turn of a Flow-mode session at the duration step
C13_Witness ==
    /\ request.op = "submit"
    /\ request.user_input = <<>>
    /\ response.status = "success"
    /\ "s1" \in DOMAIN API_SESSIONS
    /\ API_SESSIONS["s1"].mode = "flow"
    /\ API_SESSIONS["s1"].step_index = 2

\* C14: for an Initial-mode session, a submit turn whose input contains
\* "rag" and not "flow" stores mode rag and answers the fixed acknowledgment
\* with status success, mode rag, is_complete false, the hybrid generator
\* not being invoked; every non-empty turn of the session from then on goes
\* to the hybrid router, the classifier being asked first, with the input.
C14_RagSelectionThenRouter ==
    [][/\ (/\ Submitted
           /\ Old.mode = "initial"
           /\ Contains(Lower(request'.user_input), <<"r","a","g">>)
           /\ ~Contains(Lower(request'.user_input), <<"f","l","o","w">>))
          => (/\ New.mode = "rag"
              /\ calls' = <<>>
              /\ response' = FlowResponse("success",
                    <<"RAG Chatbot selected. Ask me any question about Jordan Peterson.">>,
                    FALSE, EmptyDict, "rag"))
       /\ (Submitted /\ Old.mode = "rag" /\ request'.user_input # <<>>)
          => (/\ calls' # <<>>
              /\ calls'[1].cap = "classifier"
              /\ calls'[1].query = request'.user_input)]_vars

\* the first query of a session that selected RAG, put to the classifier
C14_Witness ==
    /\ request.op = "submit"
    /\ "s1" \in DOMAIN API_SESSIONS
    /\ API_SESSIONS["s1"].mode = "rag"
    /\ Len(API_SESSIONS["s1"].history) >= 2
    /\ API_SESSIONS["s1"].history[1] = UserEntry(InRag)
    /\ API_SESSIONS["s1"].history[2] = UserEntry(request.user_input)
    /\ calls # <<>>
    /\ calls[1].cap = "classifier"

\* C15: once a session's mode is flow or rag, no submit turn changes it, to
\* the other mode or back to initial; the session leaves its mode only by a
\* reset of its id.
C15_ModesAreExclusive ==
    [][\A sid \in DOMAIN API_SESSIONS :
          API_SESSIONS[sid].mode # "initial"
          => \/ /\ sid \in DOMAIN API_SESSIONS'
                /\ API_SESSIONS'[sid].mode = API_SESSIONS[sid].mode
             \/ /\ request'.op = "reset"
                /\ request'.session_id = sid]_vars

\* a Flow-mode session that was sent the word rag and stayed in Flow mode
C15_Witness ==
    /\ request.op = "submit"
    /\ request.user_input = InRag
    /\ "s1" \in DOMAIN API_SESSIONS
    /\ API_SESSIONS["s1"].mode = "flow"
    /\ Len(API_SESSIONS["s1"].history) >= 2

\* t is blanks, an optional sign, then digits (at least one), then blanks
SplitsAsInteger(t, a, b) ==
    /\ a + b < Len(t)
    /\ \A i \in 1..a : t[i] \in Whitespace
    /\ \A i \in (Len(t) - b + 1)..Len(t) : t[i] \in Whitespace
    /\ \/ \A i \in (a + 1)..(Len(t) - b) : t[i] \in {"0", "1", "5"}
       \/ /\ t[a + 1] \in {"+", "-"}
          /\ a + 1 < Len(t) - b
          /\ \A i \in (a + 2)..(Len(t) - b) : t[i] \in {"0", "1", "5"}

IsIntegerText(t) ==
    \E a, b \in 0..Len(t) : SplitsAsInteger(t, a, b)

\* the digits of an integer text, in order
DigitsOf(t) ==
    SelectSeq(t, LAMBDA ch : ch \in {"0", "1", "5"})

\* an integer text denotes a number above 0: no minus sign, a digit not 0
DenotesPositive(t) ==
    /\ \A i \in 1..Len(t) : t[i] # "-"
    /\ \E i \in 1..Len(t) : t[i] \in {"1", "5"}

\* digits d denote a number above 100: after the leading zeros come more
\* than three digits, or three that are not 100
DigitsAbove100(d, zeros) ==
    /\ zeros < Len(d)
    /\ \A i \in 1..zeros : d[i] = "0"
    /\ d[zeros + 1] # "0"
    /\ \/ Len(d) - zeros > 3
       \/ /\ Len(d) - zeros = 3
          /\ SubSeq(d, zeros + 1, Len(d)) # <<"1", "0", "0">>

DenotesAbove100(t) ==
    /\ \A i \in 1..Len(t) : t[i] # "-"
    /\ \E zeros \in 0..Len(t) : DigitsAbove100(DigitsOf(t), zeros)

\* the Flow logic took the text for an answer: the step advanced by one
Advanced ==
    /\ checked.response.status = "success"
    /\ checked.state.step_index = StepOf(checked.field)
    /\ checked.field \in DOMAIN checked.state.answers
    /\ checked.state.answers[checked.field] = checked.value

\* C16: a duration text is accepted exactly when it reads as an integer and
\* the integer is above 0; a budget text is accepted exactly when it reads
\* as an integer and the integer is above 100 ("50" and "100" rejected,
\* "101" accepted); and a session at the duration or budget step advances
\* by one step on an accepted text and answers validation_error on a
\* rejected one.
C16_IntegerRules ==
    (checked.done /\ checked.field \in {"duration", "budget"})
    => (/\ checked.field = "duration"
           => (~checked.outcome.raised
               <=> (IsIntegerText(checked.value) /\ DenotesPositive(checked.value)))
        /\ checked.field = "budget"
           => (~checked.outcome.raised
               <=> (IsIntegerText(checked.value) /\ DenotesAbove100(checked.value)))
        /\ (checked.value # <<>> /\ ~checked.outcome.raised) => Advanced
        /\ (checked.value # <<>> /\ checked.outcome.raised)
           => (/\ checked.response.status = "validation_error"
               /\ checked.state = SessionAt(StepOf(checked.field))))

\* the budget 101, accepted at the budget step, which ends the flow
C16_Witness ==
    /\ checked.done
    /\ checked.field = "budget"
    /\ checked.value = <<"1","0","1">>
    /\ ~checked.outcome.raised
    /\ checked.state.step_index = N
    /\ checked.state.is_complete

\* t splits on whitespace into two tokens or more
HasTwoTokens(t) ==
    \E i, j, k \in 1..Len(t) :
        /\ i < j
        /\ j < k
        /\ t[i] \notin Whitespace
        /\ t[j] \in Whitespace
        /\ t[k] \notin Whitespace

\* C17: a name is rejected exactly when it is empty or shorter than 3
\* characters; a project type is rejected exactly when it splits on
\* whitespace into fewer than 2 tokens; and what the rule of a field says
\* of a text is what a session at that field's step answers to the text,
\* whatever the other fields hold.
C17_TextRules ==
    (checked.done /\ checked.field \in {"name", "projectType"})
    => (/\ checked.field = "name"
           => (checked.outcome.raised <=> Len(checked.value) < 3)
        /\ checked.field = "projectType"
           => (/\ checked.outcome.raised <=> ~HasTwoTokens(checked.value)
               /\ checked.value # <<>>
                  => (checked.outcome.raised
                      <=> checked.response.status = "validation_error")))

\* a project type of two one-letter words, accepted
C17_Witness ==
    /\ checked.done
    /\ checked.field = "projectType"
    /\ checked.value = <<"a"," ","a">>
    /\ ~checked.outcome.raised
    /\ checked.state.step_index = 2

\* C18 (as stated): handle_flow_submit accepts a value that satisfies the
\* rule of the current step's field although the other fields of
\* ProjectData are absent: the value is stored in answers under the step's
\* key, a user entry is appended to history and step_index rises by 1.
C18_ManagerAcceptsSingleField ==
    [][(/\ shown'.op = "handle_flow_submit"
        /\ ~session_state.flow_state.is_complete
        /\ ~FieldValidator(CHAT_FLOW[session_state.flow_state.step_index + 1].model_field,
                           shown'.user_input).raised)
       => (/\ session_state'.flow_state.step_index
                 = session_state.flow_state.step_index + 1
           /\ CHAT_FLOW[session_state.flow_state.step_index + 1].key
                 \in DOMAIN session_state'.flow_state.answers
           /\ session_state'.flow_state.answers[
                 CHAT_FLOW[session_state.flow_state.step_index + 1].key]
                 = shown'.user_input
           /\ session_state'.flow_state.history
                 = Append(session_state.flow_state.history,
                          UserEntry(shown'.user_input)))]_vars

\* C19: after a reset, replaying the same submit inputs leaves the same
\* answers and the same is_complete as the first run did: nothing the first
\* run left behind reaches the second.
C19_ReplayAfterResetRepeats ==
    (first_run.kept /\ sent = Len(script))
    => (/\ "s1" \in DOMAIN API_SESSIONS
        /\ API_SESSIONS["s1"].answers = first_run.answers
        /\ API_SESSIONS["s1"].is_complete = first_run.is_complete)

\* a script that completed the flow, replayed to completion
C19_Witness ==
    /\ first_run.kept
    /\ sent = Len(script)
    /\ first_run.is_complete
    /\ "s1" \in DOMAIN API_SESSIONS
    /\ API_SESSIONS["s1"].is_complete
    /\ DOMAIN API_SESSIONS["s1"].answers = Fields

\* the store after the first k received requests were handled one after the
\* other, each on the store the one before it left
RECURSIVE InOrder(_, _)
InOrder(reqs, k) ==
    IF k = 0 THEN [x \in {} |-> NewSession]
    ELSE Handle(InOrder(reqs, k - 1), reqs[k]).sessions

C21_SessionsAreIndependent ==
    [][/\ \A sid \in (DOMAIN API_SESSIONS) \ {request'.session_id} :
            /\ sid \in DOMAIN API_SESSIONS'
            /\ API_SESSIONS'[sid] = API_SESSIONS[sid]
       /\ \A sid \in (DOMAIN API_SESSIONS) \ (DOMAIN API_SESSIONS') :
            request'.op = "reset" /\ request'.session_id = sid]_vars

\* one session is in Flow mode past its first step while a query of the
\* other session has just been answered
C21_Witness ==
    /\ "s1" \in DOMAIN API_SESSIONS
    /\ API_SESSIONS["s1"].mode = "flow"
    /\ API_SESSIONS["s1"].step_index = 1
    /\ request.session_id = "s2"
    /\ request.op = "submit"
    /\ "s2" \in DOMAIN API_SESSIONS
    /\ API_SESSIONS["s2"].mode = "rag"
    /\ Len(API_SESSIONS["s2"].history) = 3
    /\ response.status = "success"

\* h is a prefix of g
IsPrefix(h, g) ==
    /\ Len(h) <= Len(g)
    /\ \A i \in 1..Len(h) : g[i] = h[i]

\* C22: a session's history is append-only between resets: after any submit
\* turn the old history is a prefix of the new one, so no entry is removed,
\* reordered or rewritten.
C22_HistoryIsAppendOnly ==
    [][Submitted => IsPrefix(Old.history, New.history)]_vars

\* a submit turn has just extended a history of several entries
C22_Witness ==
    /\ request.op = "submit"
    /\ request.session_id \in DOMAIN API_SESSIONS
    /\ Len(API_SESSIONS[request.session_id].history) >= 5
    /\ EndsWith(API_SESSIONS[request.session_id],
                PromptEntry(response.bot_message, "duration"))

\* C23: every value stored in answers passed the rule of the field it is
\* stored under, and a session whose is_complete is true holds a value for
\* each of name, projectType, duration and budget.
C23_StoredAnswersPassedTheirRules ==
    \A sid \in DOMAIN API_SESSIONS :
        /\ \A k \in DOMAIN API_SESSIONS[sid].answers :
              /\ k \in Fields
              /\ ~FieldValidator(k, API_SESSIONS[sid].answers[k]).raised
        /\ API_SESSIONS[sid].is_complete =>
              DOMAIN API_SESSIONS[sid].answers = {"name", "projectType", "duration", "budget"}

\* a complete session
C23_Witness ==
    \E sid \in DOMAIN API_SESSIONS :
        /\ API_SESSIONS[sid].is_complete
        /\ DOMAIN API_SESSIONS[sid].answers = {"name", "projectType", "duration", "budget"}
        /\ API_SESSIONS[sid].answers["budget"] = In10000

\* ------------------------------------------------------------------------
\* Properties of the hybrid router's invocations and of what it returns
\* ------------------------------------------------------------------------

\* the positions in made of the invocations of the capability
CallsOf(cap, made) ==
    {i \in 1..Len(made) : made[i].cap = cap}

\* the passages joined the way the context is passed to the generator
JoinedPassages(docs) ==
    Join(<<"\n\n---\n\n">>, [i \in 1..Len(docs) |-> docs[i].page_content])

\* C24: in the hybrid router every query triggers exactly one classifier
\* call, made before any other capability call; on the RAG branch the
\* retriever is invoked once with the raw query and the generator then
\* receives the retrieved passages joined as its context; on the LLM branch
\* the generator is invoked with no context and the retriever is never
\* invoked.
C24_ClassifierFirstThenOneBranch ==
    routed.done
    => /\ CallsOf("classifier", routed.result.calls) = {1}
       /\ routed.result.calls[1].query = routed.query
       /\ (~routed.env.cls.raised /\ SaysRag(routed.env.cls.value))
          => (/\ CallsOf("retriever", routed.result.calls) = {2}
              /\ routed.result.calls[2].query = routed.query
              /\ IF routed.env.ret.raised
                 THEN CallsOf("generator", routed.result.calls) = {}
                 ELSE /\ CallsOf("generator", routed.result.calls) = {3}
                      /\ routed.result.calls[3].query = routed.query
                      /\ routed.result.calls[3].context =
                            JoinedPassages(routed.env.ret.value))
       /\ (~routed.env.cls.raised /\ ~SaysRag(routed.env.cls.value))
          => (/\ CallsOf("retriever", routed.result.calls) = {}
              /\ CallsOf("generator", routed.result.calls) = {2}
              /\ routed.result.calls[2].query = routed.query
              /\ routed.result.calls[2].context = <<>>)
       /\ routed.env.cls.raised => Len(routed.result.calls) = 1

\* a query sent down the RAG branch: two passages retrieved and joined
C24_Witness ==
    /\ routed.done
    /\ ~routed.env.cls.raised
    /\ routed.env.cls.value = <<" ","r","a","g","\n">>
    /\ ~routed.env.ret.raised
    /\ Len(routed.env.ret.value) = 2
    /\ ~routed.result.raised
    /\ Len(routed.result.calls) = 3
    /\ routed.result.calls[3].context =
          <<"passage one">> \o <<"\n\n---\n\n">> \o <<"passage two">>

\* the class the classifier chose for the query
ChosenClass(text) ==
    IF SaysRag(text) THEN <<"R","A","G">> ELSE <<"L","L","M">>

\* C25 (as stated): the value HybridGenerator returns exposes the
\* classification of the query: its "classification" entry is the class the
\* classifier chose (RAG or LLM), or the classifier's own output, and not
\* the generated answer held in "response".
C25_ClassificationIsExposed ==
    (routed.done /\ ~routed.result.raised)
    => /\ \/ routed.result.value.classification = ChosenClass(routed.env.cls.value)
          \/ routed.result.value.classification = Strip(routed.env.cls.value)
       /\ routed.result.value.response = routed.env.gen.value

\* ------------------------------------------------------------------------
\* Properties of the turns' effects and responses
\* ------------------------------------------------------------------------

\* C26: a RAG-mode turn with a non-empty query whose capability calls all
\* returned answers success, appends exactly two entries to history, the
\* {user, query} entry followed by the {assistant, response} entry, its
\* bot_message is the text the generator returned, and mode, step_index,
\* answers and is_complete stay as they were.
C26_AnsweredQueryAppendsTwoEntries ==
    [][(/\ Submitted
        /\ Old.mode = "rag"
        /\ request'.user_input # <<>>
        /\ ~Failed(calls'))
       => (/\ response'.status = "success"
           /\ calls' # <<>>
           /\ calls'[Len(calls')].cap = "generator"
           /\ response'.bot_message \in GeneratorTexts
           /\ New.history = Old.history \o <<UserEntry(request'.user_input),
                                              AssistantEntry(response'.bot_message)>>
           /\ Core(New) = Core(Old))]_vars

\* a query answered on the retrieval path: selection, query, answer
C26_Witness ==
    /\ request.op = "submit"
    /\ request.user_input = InWebApp
    /\ response.status = "success"
    /\ response.mode = "rag"
    /\ Len(calls) = 3
    /\ "s1" \in DOMAIN API_SESSIONS
    /\ API_SESSIONS["s1"].history =
          <<UserEntry(InRag), UserEntry(InWebApp), AssistantEntry(response.bot_message)>>

\* the message of the range rule, and of the integer rule, of a numeric field
RangeMessage(field) ==
    IF field = "duration" THEN <<"Duration must be a positive number of weeks.">>
    ELSE <<"Budget must be greater than $100.">>

IntegerMessage(field) ==
    IF field = "duration" THEN <<"Duration must be a valid integer.">>
    ELSE <<"Budget must be a valid integer.">>

\* the message carries the text
Mentions(message, text) ==
    Contains(message, text)

\* C27 (as stated): the rejection reason of a validation_error response
\* names the rule that failed: for a duration or budget input that parses
\* as an integer but is out of range the message is the range message, and
\* the "must be a valid integer" message is produced only when the input
\* does not parse as an integer.
C27_RejectionNamesTheFailedRule ==
    (/\ checked.done
     /\ checked.field \in {"duration", "budget"}
     /\ checked.response.status = "validation_error")
    => IF IsIntegerText(checked.value)
       THEN /\ Mentions(checked.response.bot_message, RangeMessage(checked.field))
            /\ ~Mentions(checked.response.bot_message, IntegerMessage(checked.field))
       ELSE Mentions(checked.response.bot_message, IntegerMessage(checked.field))

\* the keys of the first k steps of the flow script
KeysBefore(k) ==
    {CHAT_FLOW[j].key : j \in 1..k}

\* C28: at every turn boundary, is_complete is true iff the mode is flow
\* and step_index = N, and the keys of answers are exactly the keys of the
\* first step_index steps of the flow script.
C28_CompleteIffAtEndOfScript ==
    \A sid \in DOMAIN API_SESSIONS :
        /\ API_SESSIONS[sid].is_complete <=>
              (API_SESSIONS[sid].mode = "flow" /\ API_SESSIONS[sid].step_index = N)
        /\ API_SESSIONS[sid].step_index \in 0..N
        /\ DOMAIN API_SESSIONS[sid].answers = KeysBefore(API_SESSIONS[sid].step_index)

\* the last step has just been answered
C28_Witness ==
    /\ request.op = "submit"
    /\ request.user_input = In10000
    /\ response.bot_message = <<"Thank you! The flow is now complete.">>
    /\ "s1" \in DOMAIN API_SESSIONS
    /\ API_SESSIONS["s1"].step_index = N
    /\ API_SESSIONS["s1"].is_complete

\* the session stored for the id, an id not in the store counting as new
StoredOrNew(sessions, session_id) ==
    IF session_id \in DOMAIN sessions THEN sessions[session_id] ELSE NewSession

\* C29: every response of submit or reset mirrors the session stored after
\* the turn: its mode, its is_complete and its data are the stored mode,
\* is_complete and answers, an id that is not stored counting as
\* {initial, false, {}}.
C29_ResponseMirrorsStoredState ==
    request.op \in {"submit", "reset"}
    => /\ response.mode = StoredOrNew(API_SESSIONS, request.session_id).mode
       /\ response.is_complete = StoredOrNew(API_SESSIONS, request.session_id).is_complete
       /\ response.data = StoredOrNew(API_SESSIONS, request.session_id).answers

\* a value rejected at the duration step, two answers stored
C29_Witness ==
    /\ request.op = "submit"
    /\ response.status = "validation_error"
    /\ response.mode = "flow"
    /\ DOMAIN response.data = {"name", "projectType"}
    /\ "s1" \in DOMAIN API_SESSIONS
    /\ API_SESSIONS["s1"].step_index = 2

\* C30: the stored mode of every session is always one of initial, flow and
\* rag, so the fallback response for an unexpected state is never returned,
\* and a response with status error comes only from a RAG-mode turn in
\* which a capability call failed.
C30_ErrorsComeFromRagFailuresOnly ==
    /\ \A sid \in DOMAIN API_SESSIONS : API_SESSIONS[sid].mode \in {"initial", "flow", "rag"}
    /\ response.bot_message # <<"An unexpected state was reached. Please reset the flow.">>
    /\ response.status = "error"
       => (/\ request.op = "submit"
           /\ request.user_input # <<>>
           /\ request.session_id \in DOMAIN API_SESSIONS
           /\ API_SESSIONS[request.session_id].mode = "rag"
           /\ response.mode = "rag"
           /\ Failed(calls))

\* a RAG-mode turn in which the retriever failed
C30_Witness ==
    /\ request.op = "submit"
    /\ response.status = "error"
    /\ Len(calls) = 2
    /\ calls[2].cap = "retriever"
    /\ calls[2].raised
    /\ "s1" \in DOMAIN API_SESSIONS
    /\ API_SESSIONS["s1"].mode = "rag"

\* ------------------------------------------------------------------------
\* Properties of mode selection by substring
\* ------------------------------------------------------------------------

\* the character is the lower-case letter or its capital
IsLetter(ch, letter) ==
    \/ ch = letter
    \/ <<letter, ch>> \in {<<"f", "F">>, <<"l", "L">>, <<"o", "O">>, <<"w", "W">>,
                           <<"r", "R">>, <<"a", "A">>, <<"g", "G">>}

\* the word occurs in the text, letter case ignored, at some position
HasWord(text, word) ==
    \E i \in 1..Len(text) :
        /\ i + Len(word) - 1 <= Len(text)
        /\ \A j \in 1..Len(word) : IsLetter(text[i + j - 1], word[j])

\* C31: mode selection is by substring containment on the lower-cased
\* input, "flow" tested before "rag": an input holding both selects Flow,
\* an input holding "flow" inside a longer word selects Flow, an input
\* holding "rag" inside a longer word and not "flow" selects RAG, and an
\* input holding neither selects nothing.
C31_SelectionIsBySubstring ==
    [][(/\ Submitted
        /\ Old.mode = "initial"
        /\ request'.user_input # <<>>)
       => New.mode = IF HasWord(request'.user_input, <<"f","l","o","w">>) THEN "flow"
                     ELSE IF HasWord(request'.user_input, <<"r","a","g">>) THEN "rag"
                     ELSE "initial"]_vars

\* "Dragonflower", which holds both words inside longer ones, selected Flow
C31_Witness ==
    /\ request.op = "submit"
    /\ request.user_input = <<"D","r","a","g","o","n","f","l","o","w","e","r">>
    /\ "s1" \in DOMAIN API_SESSIONS
    /\ API_SESSIONS["s1"].mode = "flow"
    /\ Len(API_SESSIONS["s1"].history) = 2
    /\ API_SESSIONS["s1"].history[1] = UserEntry(<<"D","r","a","g","o","n","f","l","o","w","e","r">>)

\* ------------------------------------------------------------------------
\* Properties of the Streamlit client and of the flow manager's prompts
\* ------------------------------------------------------------------------

\* the run posted the user's prompt and the submit did not succeed
SubmitFailed(ran) ==
    /\ ran.op = "submit"
    /\ \/ ran.posted \in {"http_error", "connection_error", "bad_body"}
       \/ ran.status = "validation_error"

\* C32 (as stated): in the Streamlit client, whenever a submit does not
\* succeed (status code >= 400, a validation_error response, a connection
\* error, or any other exception), the user message appended to the
\* client's history before the request is removed again: history, mode and
\* is_complete are as they were before the submission.
C32_FailedSubmitLeavesClientUnchanged ==
    [][SubmitFailed(shown')
       => (/\ session_state'.history = session_state.history
           /\ session_state'.mode = session_state.mode
           /\ session_state'.is_complete = session_state.is_complete)]_vars

\* the manager's flow_state after the first k steps were prompted and
\* answered with a value the step accepts
RECURSIVE ManagerAt(_)
ManagerAt(k) ==
    IF k = 0 THEN NewFlowState
    ELSE MarkComplete(StoreAnswer(get_current_bot_response(ManagerAt(k - 1)).flow_state,
                                  CHAT_FLOW[k], AcceptedAt(k)))

\* those states, before and after the prompt of the step was added, and the
\* state the manager is in
ManagerStates ==
    {ManagerAt(k) : k \in 0..N}
        \cup {get_current_bot_response(ManagerAt(k)).flow_state : k \in 0..N}
        \cup {session_state.flow_state}

\* the entries of history that are the prompt of the step with the key
PromptsOf(history, key) ==
    {i \in 1..Len(history) : "key" \in DOMAIN history[i] /\ history[i].key = key}

\* prompted is flow_state after a call of get_current_bot_response
PromptedOnce(flow_state, prompted) ==
    /\ \A key \in Fields : Cardinality(PromptsOf(prompted.history, key)) <= 1
    /\ Len(prompted.history) <= Len(flow_state.history) + 1
    /\ get_current_bot_response(prompted).flow_state = prompted
    /\ flow_state.is_complete => prompted = flow_state

\* C33: get_current_bot_response appends the prompt of the current step to
\* history at most once per step: a repeated call with no accepted answer
\* in between adds no further assistant entry, and no call adds an entry
\* once is_complete is true.
C33_PromptAddedOncePerStep ==
    \A flow_state \in ManagerStates :
        PromptedOnce(flow_state, get_current_bot_response(flow_state).flow_state)

\* the prompt of the first step is in history once, after calls of
\* get_current_bot_response
C33_Witness ==
    /\ shown.op = "get_current_bot_response"
    /\ session_state.flow_state.history =
          <<PromptEntry(CHAT_FLOW[1].prompt, CHAT_FLOW[1].key)>>
    /\ get_current_bot_response(session_state.flow_state).flow_state = session_state.flow_state
    /\ ManagerAt(N).is_complete

====
